---------------------------- MODULE Spec2Model ----------------------------
(***************************************************************************)
(* A model of src/news.py: the RSS aggregation pipeline.                   *)
(*                                                                         *)
(*   get_image_from_entry   lines 30-45   image heuristics for one entry   *)
(*   fetch_latest_news      lines 47-78   cached ingestion of the feeds     *)
(*   display_article_text   lines 80-91   rendering, with the truncation    *)
(*   the script body        lines 136-158 selection, refresh button, call   *)
(*                                                                         *)
(* Data representation.  A Python dict (a feedparser entry, a media item)  *)
(* is a function whose DOMAIN is the set of keys that are present, so      *)
(* `'k' in d` is  "k" \in DOMAIN d.  A str is a sequence of characters; an *)
(* HTML tag is one character of that sequence (a string beginning with     *)
(* "<").  A time.struct_time is its 9-tuple.  Python's None is None where  *)
(* a URL is expected and NoTime (the empty tuple, falsy like None) where a *)
(* struct_time is expected.  A call that may raise returns a record whose  *)
(* field exc names the exception (NoExc when it returns normally).         *)
(***************************************************************************)
EXTENDS Integers, Sequences, FiniteSets, TLC

VARIABLES
    selected_feeds,   \* fetch_latest_news: the argument, names in dict order
    web,              \* what feedparser.parse answers for each selected name
    pc,               \* position of the running script / function
    i,                \* fetch_latest_news: index of the source being handled
    feed,             \* fetch_latest_news: the parsed feed of source i
    j,                \* fetch_latest_news: index of the entry being handled
    all_articles,     \* fetch_latest_news: the list being built / returned
    warnings,         \* names passed to st.warning by fetch_latest_news
    errors,           \* (name, exception) passed to st.error
    parse_calls,      \* names whose URL was handed to feedparser.parse
    selected_sources, \* the multiselect widget's value
    cache,            \* st.cache_data entries of fetch_latest_news
    now,              \* the clock st.cache_data reads, in seconds
    articles,         \* the script's variable `articles`
    entry,            \* one raw entry (the pure-function specifications)
    image_url,        \* what get_image_from_entry answered for entry
    article,          \* the dict built from entry by fetch_latest_news
    shown             \* the summary display_article_text rendered

vars == << selected_feeds, web, pc, i, feed, j, all_articles, warnings, errors,
           parse_calls, selected_sources, cache, now, articles,
           entry, image_url, article, shown >>

ingestVars == << selected_feeds, web, i, feed, j, all_articles, warnings,
                 errors, parse_calls >>
shellVars  == << selected_sources, cache, now, articles >>
entryVars  == << entry, image_url, article, shown >>

(***************************************************************************)
(* Bounds of the model.                                                    *)
(***************************************************************************)
MaxEntries == 2      \* entries per feed
MaxItems   == 2      \* items of a media_thumbnail / media_content list
MaxChars   == 3      \* characters of a short summary
MaxWindows == 2      \* how many time-to-live windows the clock runs through

(***************************************************************************)
(* Python values.                                                          *)
(***************************************************************************)
None    == "None"
NoTime  == << >>
NoExc   == "none"
EmptyDict == [k \in {} |-> k]

\* d.get(k, default)
Get(d, k, default) == IF k \in DOMAIN d THEN d[k] ELSE default

\* a or b, for struct_time-or-None operands
OrTime(a, b) == IF a # NoTime THEN a ELSE b

SeqsUpTo(n, S) == UNION { [1..m -> S] : m \in 0..n }

Range(s) == { s[k] : k \in DOMAIN s }

Reverse(s) == [k \in 1..Len(s) |-> s[Len(s) + 1 - k]]

(***************************************************************************)
(* Text: bs4's get_text / find('img'), str.split and ' '.join.             *)
(***************************************************************************)
Whitespace == { " ", "\n" }
ImgTags    == { "<img src=uS>", "<img>" }
Tags       == ImgTags \cup { "<b>" }

IsTag(c) == c \in Tags

\* BeautifulSoup(html, 'html.parser').get_text(): the text nodes, in order
get_text(html) == SelectSeq(html, LAMBDA c : ~IsTag(c))

\* img_tag.get('src') of an <img> element
ImgSrc(tag) == IF tag = "<img src=uS>" THEN "uS" ELSE None

\* soup.find('img'): the first <img> element, or None
find_img(html) ==
    LET imgs == SelectSeq(html, LAMBDA c : c \in ImgTags)
    IN  IF imgs = << >> THEN None ELSE imgs[1]

\* s.split(): the maximal runs of non-whitespace characters
split(s) ==
    LET n      == Len(s)
        idx    == [k \in 1..n |-> k]
        word(k) == s[k] \notin Whitespace
        starts == SelectSeq(idx, LAMBDA k : word(k) /\ (k = 1 \/ ~word(k - 1)))
        ends   == SelectSeq(idx, LAMBDA k : word(k) /\ (k = n \/ ~word(k + 1)))
    IN  [w \in 1..Len(starts) |-> SubSeq(s, starts[w], ends[w])]

\* ' '.join(words[lo..hi])
RECURSIVE JoinRange(_, _, _)
JoinRange(words, lo, hi) ==
    IF lo > hi THEN << >>
    ELSE IF lo = hi THEN words[lo]
    ELSE LET mid == (lo + hi) \div 2
         IN  JoinRange(words, lo, mid) \o << " " >> \o JoinRange(words, mid + 1, hi)

join(words) == JoinRange(words, 1, Len(words))

Ellipsis == << ".", ".", "." >>

(***************************************************************************)
(* get_image_from_entry (lines 30-45).                                     *)
(***************************************************************************)
\* lines 37-39: the first item with a 'url' key and medium 'image'
ImageItems(items) ==
    SelectSeq(items, LAMBDA it : "url" \in DOMAIN it /\ Get(it, "medium", None) = "image")

\* A faulty variant, for comparison: the media_content branch decides alone, no fall-through to the
\* summary when it finds no image item.
get_image_no_fallthrough(e) ==
    IF "media_thumbnail" \in DOMAIN e /\ e.media_thumbnail # << >>
    THEN IF "url" \in DOMAIN e.media_thumbnail[1]
         THEN [exc |-> NoExc, value |-> e.media_thumbnail[1]["url"]]
         ELSE [exc |-> "KeyError", value |-> None]
    ELSE IF "media_content" \in DOMAIN e /\ e.media_content # << >>
    THEN IF ImageItems(e.media_content) # << >>
         THEN [exc |-> NoExc, value |-> ImageItems(e.media_content)[1]["url"]]
         ELSE [exc |-> NoExc, value |-> None]
    ELSE IF "summary" \in DOMAIN e /\ find_img(e.summary) # None
    THEN [exc |-> NoExc, value |-> ImgSrc(find_img(e.summary))]
    ELSE [exc |-> NoExc, value |-> None]

get_image_from_entry(e) ==
    IF "media_thumbnail" \in DOMAIN e /\ e.media_thumbnail # << >>
    THEN \* line 35: entry.media_thumbnail[0]['url']
         IF "url" \in DOMAIN e.media_thumbnail[1]
         THEN [exc |-> NoExc, value |-> e.media_thumbnail[1]["url"]]
         ELSE [exc |-> "KeyError", value |-> None]
    ELSE IF /\ "media_content" \in DOMAIN e
            /\ e.media_content # << >>
            /\ ImageItems(e.media_content) # << >>
    THEN [exc |-> NoExc, value |-> ImageItems(e.media_content)[1]["url"]]
    ELSE IF "summary" \in DOMAIN e /\ find_img(e.summary) # None
    THEN \* lines 43-45: a falsy src falls to `return None`
         [exc |-> NoExc, value |-> ImgSrc(find_img(e.summary))]
    ELSE [exc |-> NoExc, value |-> None]


(***************************************************************************)
(* The loop body of fetch_latest_news (lines 61-73): one entry to one      *)
(* article dict.                                                           *)
(***************************************************************************)
\* 'No summary available.'
NoSummary == << "N", "o", " ", "s", "u", "m", "m", "a", "r", "y", " ",
                "a", "v", "a", "i", "l", "a", "b", "l", "e", "." >>

NormalizeEntry(e, name) ==
    LET published_time == OrTime(Get(e, "published_parsed", NoTime),
                                 Get(e, "updated_parsed", NoTime))
        summary_html   == Get(e, "summary", NoSummary)
        summary_text   == get_text(summary_html)
        image          == get_image_from_entry(e)
        \* entry.title, entry.link: attribute access on a FeedParserDict
        exc == IF image.exc # NoExc THEN image.exc
               ELSE IF "title" \notin DOMAIN e \/ "link" \notin DOMAIN e
                    THEN "AttributeError"
                    ELSE NoExc
    IN  [exc   |-> exc,
         value |-> IF exc # NoExc THEN EmptyDict
                   ELSE [source    |-> name,
                         title     |-> e.title,
                         link      |-> e.link,
                         published |-> published_time,
                         summary   |-> summary_text,
                         image_url |-> image.value]]

(***************************************************************************)
(* display_article_text (lines 87-91): the summary as rendered.            *)
(***************************************************************************)
max_len == 500

\* A faulty variant, for comparison: the comparison of line 89 made inclusive.
display_summary_inclusive(a) ==
    LET words == split(a.summary)
    IN  IF Len(words) >= max_len
        THEN join(SubSeq(words, 1, max_len)) \o Ellipsis
        ELSE a.summary

display_summary(a) ==
    LET words == split(a.summary)
    IN  IF Len(words) > max_len
        THEN join(SubSeq(words, 1, max_len)) \o Ellipsis
        ELSE a.summary

(***************************************************************************)
(* all_articles.sort(key=..., reverse=True) (line 77).                     *)
(***************************************************************************)
\* time.gmtime(0): Thursday 1 January 1970, 00:00:00
gmtime0 == << 1970, 1, 1, 0, 0, 0, 3, 1, 0 >>

\* lambda x: x["published"] or time.gmtime(0)
SortKey(a) == OrTime(a.published, gmtime0)

\* struct_time < struct_time: the tuples, lexicographically
TimeLess(a, b) ==
    \E k \in 1..Len(a) : a[k] < b[k] /\ \A m \in 1..(k - 1) : a[m] = b[m]

\* a stable ascending sort: x goes behind every element that is not greater
RECURSIVE StableAscending(_)
StableAscending(s) ==
    IF s = << >> THEN << >>
    ELSE LET rest == StableAscending(SubSeq(s, 1, Len(s) - 1))
             x    == s[Len(s)]
             keep == { k \in 1..Len(rest) : TimeLess(SortKey(x), SortKey(rest[k])) }
             at   == IF keep = {} THEN Len(rest) + 1
                     ELSE CHOOSE k \in keep : \A m \in keep : k <= m
         IN  SubSeq(rest, 1, at - 1) \o << x >> \o SubSeq(rest, at, Len(rest))

\* A faulty variant, for comparison: sort ascending, then reverse (ties come out reversed).
SortedSortThenReverse(s) == Reverse(StableAscending(s))

\* list.sort(reverse=True) reverses, sorts stably, and reverses again, which
\* keeps equal elements in their original order
Sorted(s) == Reverse(StableAscending(Reverse(s)))


(***************************************************************************)
(* Inputs of the ingestion: the selected sources and what the feeds hold.  *)
(***************************************************************************)
\* the sources the multiselect offers by default (line 143), out of NEWS_FEEDS
DefaultSources == << "R&D World", "Forbes (Innovation)" >>

\* the selections: the default sources, any of them, in any order
Selections ==
    { s \in SeqsUpTo(Len(DefaultSources), Range(DefaultSources)) :
        \A a, b \in DOMAIN s : a # b => s[a] # s[b] }

T2024 == << 2024, 1, 1, 0, 0, 0, 0, 1, 0 >>          \* Monday 1 January 2024
T1969 == << 1969, 12, 31, 23, 59, 59, 2, 365, 0 >>   \* Wednesday 31 December 1969

\* Four entries as feeds carry them: dated, dated before the epoch (by its
\* updated time only), undated, and one without a title.
EntryPool ==
    { [title |-> "t", link |-> "l", published_parsed |-> T2024, summary |-> << "a" >>],
      [title |-> "t", link |-> "l", updated_parsed |-> T1969],
      [title |-> "t", link |-> "l", summary |-> << "<img src=uS>", "a" >>],
      [link |-> "l", published_parsed |-> T2024, summary |-> << "a" >>] }

LinkOf(k) == "l" \o ToString(k)

\* the entries of one feed: each has its own permalink
FeedEntries(pool, n) ==
    { [k \in DOMAIN es |-> [f \in DOMAIN es[k] |->
                               IF f = "link" THEN LinkOf(k) ELSE es[k][f]]] :
      es \in SeqsUpTo(n, pool) }

\* feedparser.parse(url): it raises, or answers a feed, flagged bozo or not
FeedResponses(pool, n) ==
    { [raises |-> TRUE, bozo |-> FALSE, entries |-> << >>] }
    \cup { [raises |-> FALSE, bozo |-> b, entries |-> es] :
           b \in BOOLEAN, es \in FeedEntries(pool, n) }

NoFeed == [raises |-> FALSE, bozo |-> FALSE, entries |-> << >>]

(***************************************************************************)
(* fetch_latest_news (lines 52-78), one step per statement that can leave  *)
(* the loop differently.                                                   *)
(***************************************************************************)
name == selected_feeds[i]

\* line 52, entered with the argument `selected`
EnterBody(selected) ==
    /\ selected_feeds' = selected
    /\ i' = 1
    /\ j' = 1
    /\ feed' = NoFeed
    /\ all_articles' = << >>
    /\ warnings' = << >>
    /\ errors' = << >>

\* line 55 raises: the handler of lines 74-75, then the next source
ParseRaises ==
    /\ pc = "loop" /\ i <= Len(selected_feeds)
    /\ web[name].raises
    /\ parse_calls' = Append(parse_calls, name)
    /\ errors' = Append(errors, [source |-> name, detail |-> "ParseError"])
    /\ i' = i + 1
    /\ UNCHANGED << pc, selected_feeds, web, feed, j, all_articles, warnings >>
    /\ UNCHANGED shellVars /\ UNCHANGED entryVars

\* A faulty variant, for comparison: line 58's `continue` is missing, the entries are processed.
ParseBozoNoContinue ==
    /\ pc = "loop" /\ i <= Len(selected_feeds)
    /\ ~web[name].raises /\ web[name].bozo
    /\ parse_calls' = Append(parse_calls, name)
    /\ warnings' = Append(warnings, name)
    /\ feed' = web[name]
    /\ j' = 1
    /\ pc' = "entries"
    /\ UNCHANGED << selected_feeds, web, i, all_articles, errors >>
    /\ UNCHANGED shellVars /\ UNCHANGED entryVars

\* lines 56-58: a bozo feed is warned about and skipped
ParseBozo ==
    /\ pc = "loop" /\ i <= Len(selected_feeds)
    /\ ~web[name].raises /\ web[name].bozo
    /\ parse_calls' = Append(parse_calls, name)
    /\ warnings' = Append(warnings, name)
    /\ feed' = web[name]
    /\ i' = i + 1
    /\ UNCHANGED << pc, selected_feeds, web, j, all_articles, errors >>
    /\ UNCHANGED shellVars /\ UNCHANGED entryVars

\* lines 55-60: a well-formed feed, its entries are about to be walked
ParseOk ==
    /\ pc = "loop" /\ i <= Len(selected_feeds)
    /\ ~web[name].raises /\ ~web[name].bozo
    /\ parse_calls' = Append(parse_calls, name)
    /\ feed' = web[name]
    /\ j' = 1
    /\ pc' = "entries"
    /\ UNCHANGED << selected_feeds, web, i, all_articles, warnings, errors >>
    /\ UNCHANGED shellVars /\ UNCHANGED entryVars

\* lines 61-73: the entry is normalized and appended
EntryAppended ==
    /\ pc = "entries" /\ j <= Len(feed.entries)
    /\ NormalizeEntry(feed.entries[j], name).exc = NoExc
    /\ all_articles' = Append(all_articles, NormalizeEntry(feed.entries[j], name).value)
    /\ j' = j + 1
    /\ UNCHANGED << pc, selected_feeds, web, i, feed, warnings, errors, parse_calls >>
    /\ UNCHANGED shellVars /\ UNCHANGED entryVars

\* lines 61-73 raise: the handler of lines 74-75 ends this source; what was
\* appended before stays in all_articles
EntryRaises ==
    /\ pc = "entries" /\ j <= Len(feed.entries)
    /\ NormalizeEntry(feed.entries[j], name).exc # NoExc
    /\ errors' = Append(errors, [source |-> name,
                                 detail |-> NormalizeEntry(feed.entries[j], name).exc])
    /\ i' = i + 1
    /\ pc' = "loop"
    /\ UNCHANGED << selected_feeds, web, feed, j, all_articles, warnings, parse_calls >>
    /\ UNCHANGED shellVars /\ UNCHANGED entryVars

\* line 60: the entries are exhausted, the next source
EntriesDone ==
    /\ pc = "entries" /\ j > Len(feed.entries)
    /\ i' = i + 1
    /\ pc' = "loop"
    /\ UNCHANGED << selected_feeds, web, feed, j, all_articles, warnings, errors,
                    parse_calls >>
    /\ UNCHANGED shellVars /\ UNCHANGED entryVars

\* lines 77-78: the sources are exhausted, sort in place and return
SortAndReturn ==
    /\ pc = "loop" /\ i > Len(selected_feeds)
    /\ all_articles' = Sorted(all_articles)
    /\ pc' = "returned"
    /\ UNCHANGED << selected_feeds, web, i, feed, j, warnings, errors, parse_calls >>
    /\ UNCHANGED shellVars /\ UNCHANGED entryVars

Body ==
    \/ ParseRaises
    \/ ParseBozo
    \/ ParseOk
    \/ EntryAppended
    \/ EntryRaises
    \/ EntriesDone
    \/ SortAndReturn

(***************************************************************************)
(* Spec: one call of the body of fetch_latest_news, for every selection    *)
(* and every answer of the feeds.                                          *)
(***************************************************************************)
NoEntry == EmptyDict

EntryIdle ==
    /\ entry = NoEntry
    /\ image_url = [exc |-> NoExc, value |-> None]
    /\ article = [exc |-> NoExc, value |-> EmptyDict]
    /\ shown = << >>

ShellIdle ==
    /\ selected_sources = DefaultSources
    /\ cache = EmptyDict
    /\ now = 0
    /\ articles = << >>

Init ==
    /\ selected_feeds \in Selections
    /\ web \in [Range(selected_feeds) -> FeedResponses(EntryPool, MaxEntries)]
    /\ pc = "loop"
    /\ i = 1
    /\ j = 1
    /\ feed = NoFeed
    /\ all_articles = << >>
    /\ warnings = << >>
    /\ errors = << >>
    /\ parse_calls = << >>
    /\ ShellIdle
    /\ EntryIdle

Next == Body

Spec == Init /\ [][Next]_vars


(***************************************************************************)
(* What the feeds of a run hold, read off the input.                       *)
(***************************************************************************)
Returned == pc = "returned"

Selected == Range(selected_feeds)

\* line 56: the parser flags the feed of n
Malformed(n) == ~web[n].raises /\ web[n].bozo

\* the entries of n whose normalization (lines 61-73) raises
RaisingEntries(n) ==
    { k \in DOMAIN web[n].entries : NormalizeEntry(web[n].entries[k], n).exc # NoExc }

\* lines 55-73 raise somewhere for n
Raised(n) == web[n].raises \/ (~web[n].bozo /\ RaisingEntries(n) # {})

Failed(n) == Malformed(n) \/ Raised(n)

ArticlesOf(n) == SelectSeq(all_articles, LAMBDA a : a.source = n)

\* the articles line 66 appends for n, in feed order
Contribution(n) ==
    IF web[n].raises \/ web[n].bozo THEN << >>
    ELSE LET bad  == RaisingEntries(n)
             upto == IF bad = {} THEN Len(web[n].entries)
                     ELSE (CHOOSE k \in bad : \A m \in bad : k <= m) - 1
         IN  [k \in 1..upto |-> NormalizeEntry(web[n].entries[k], n).value]

\* all_articles as the loop of lines 53-75 fills it: source by source
RECURSIVE InsertionOrder(_)
InsertionOrder(k) ==
    IF k = 0 THEN << >>
    ELSE InsertionOrder(k - 1) \o Contribution(selected_feeds[k])

WithKey(s, key) == SelectSeq(s, LAMBDA a : SortKey(a) = key)

(***************************************************************************)
(* C1  A source whose feed is flagged malformed, or whose fetch, parse or  *)
(* normalization raises at any point (also at its k-th entry, k > 1),      *)
(* contributes no article to the returned collection.                      *)
(***************************************************************************)
C1_FailedSourceContributesNothing ==
    Returned => \A n \in Selected : Failed(n) => ArticlesOf(n) = << >>

(***************************************************************************)
(* C2  Whatever sources are malformed or raise, the call handles every     *)
(* source, returns normally, returns one article for every entry of every  *)
(* source that did not fail, and returns the empty collection when all     *)
(* sources fail.                                                           *)
(***************************************************************************)
\* no statement of the body is left without a successor: the guards of the
\* steps of Body, which leave no room for an exception to escape
BodyCanStep ==
    \/ pc = "loop" /\ i <= Len(selected_feeds) /\ selected_feeds[i] \in DOMAIN web
    \/ pc = "loop" /\ i = Len(selected_feeds) + 1
    \/ pc = "entries" /\ i <= Len(selected_feeds) /\ j <= Len(feed.entries) + 1

C2_FailuresIsolatedAndEmptyWhenAllFail ==
    /\ ~Returned => BodyCanStep
    /\ Returned =>
         /\ parse_calls = selected_feeds
         /\ \A n \in Selected :
              ~Failed(n) => Len(ArticlesOf(n)) = Len(web[n].entries)
         /\ (\A n \in Selected : Failed(n)) => all_articles = << >>

(***************************************************************************)
(* C3  In the returned collection every adjacent pair (a, b) has           *)
(* a.published >= b.published with a missing timestamp as the minimum:     *)
(* no article without a timestamp precedes one with a timestamp, whatever  *)
(* that timestamp is.                                                      *)
(***************************************************************************)
C3_UndatedSortLast ==
    Returned =>
      \A k \in 1..(Len(all_articles) - 1) :
        LET a == all_articles[k]
            b == all_articles[k + 1]
        IN  /\ a.published = NoTime => b.published = NoTime
            /\ (a.published # NoTime /\ b.published # NoTime)
                 => ~TimeLess(a.published, b.published)

(***************************************************************************)
(* C8  After a run the notifications are exactly those of the failed       *)
(* sources: one warning for each malformed source, one error for each      *)
(* source that raised, never both for one source, none for a source that   *)
(* parsed; an empty selection gives an empty collection and no             *)
(* notification.                                                           *)
(***************************************************************************)
WarningsNaming(n) == Len(SelectSeq(warnings, LAMBDA w : w = n))
ErrorsNaming(n)   == Len(SelectSeq(errors, LAMBDA e : e.source = n))

C8_NotificationsMatchFailures ==
    Returned =>
      /\ \A n \in Selected :
           /\ WarningsNaming(n) = IF Malformed(n) THEN 1 ELSE 0
           /\ ErrorsNaming(n) = IF Raised(n) THEN 1 ELSE 0
           /\ WarningsNaming(n) + ErrorsNaming(n) <= 1
      /\ Len(warnings) + Len(errors) = Cardinality({ n \in Selected : Failed(n) })
      /\ selected_feeds = << >> =>
           all_articles = << >> /\ warnings = << >> /\ errors = << >>

\* a run with a malformed source, a source that raised at its second entry,
\* both notified
C8_Witness ==
    /\ Returned
    /\ \E m, r \in Selected :
         /\ Malformed(m) /\ web[m].entries # << >>
         /\ ~web[r].raises /\ Raised(r) /\ 1 \notin RaisingEntries(r)
         /\ WarningsNaming(m) = 1 /\ ErrorsNaming(r) = 1

(***************************************************************************)
(* C10  The descending sort is stable: articles with equal sort keys       *)
(* (the same timestamp, or none) come out in insertion order, that is in   *)
(* source iteration order and then feed entry order, so the result is      *)
(* determined by the input.                                                *)
(***************************************************************************)
C10_SortIsStable ==
    Returned =>
      /\ \A a \in Range(all_articles) :
           WithKey(all_articles, SortKey(a))
             = WithKey(InsertionOrder(Len(selected_feeds)), SortKey(a))
      /\ Len(all_articles) = Len(InsertionOrder(Len(selected_feeds)))
      /\ \A k \in 1..(Len(all_articles) - 1) :
           ~TimeLess(SortKey(all_articles[k]), SortKey(all_articles[k + 1]))

\* a result with a tie inside one source and a tie across two sources
C10_Witness ==
    /\ Returned
    /\ \E p, q \in DOMAIN all_articles :
         /\ p < q
         /\ SortKey(all_articles[p]) = SortKey(all_articles[q])
         /\ all_articles[p].source = all_articles[q].source
    /\ \E p, q \in DOMAIN all_articles :
         /\ p < q
         /\ SortKey(all_articles[p]) = SortKey(all_articles[q])
         /\ all_articles[p].source # all_articles[q].source


(***************************************************************************)
(* SpecEntry: get_image_from_entry, the loop body and display_article_text *)
(* applied to one raw entry, for every entry of RawEntries.                *)
(***************************************************************************)
\* dict fields that may be absent
Opt(key, values) == { EmptyDict } \cup { key :> v : v \in values }

ThumbItems   == { EmptyDict, [url |-> "uT"], [url |-> "uT2"] }
ContentItems == { [url |-> "uC", medium |-> "image"],
                  [url |-> "uC2", medium |-> "image"],
                  [url |-> "uV", medium |-> "video"],
                  [medium |-> "image"] }
Snippets     == SeqsUpTo(MaxItems, { "a", "<img src=uS>", "<img>" })

\* entries that differ in what the image heuristics read
ImageEntries ==
    { [title |-> "t", link |-> "l"] @@ t @@ c @@ h :
        t \in Opt("media_thumbnail", SeqsUpTo(MaxItems, ThumbItems)),
        c \in Opt("media_content", SeqsUpTo(MaxItems, ContentItems)),
        h \in Opt("summary", Snippets) }

\* n words, "a" and "b" in turn, each followed by sep (the last one only if
\* trailing)
LongText(n, sep, trailing) ==
    LET u    == 1 + Len(sep)
        full == [k \in 1..(n * u) |->
                   IF (k - 1) % u = 0
                   THEN IF ((k - 1) \div u) % 2 = 0 THEN "a" ELSE "b"
                   ELSE sep[(k - 1) % u]]
    IN  IF trailing THEN full ELSE SubSeq(full, 1, n * u - Len(sep))

Separators == { << " " >>, << " ", "\n" >>, << "<b>", " " >> }

\* summaries around the word limit, and every short one
Summaries ==
    SeqsUpTo(MaxChars, { "a", " ", "\n", "<b>" })
    \cup { LongText(n, sep, t) :
             n \in { max_len - 1, max_len, max_len + 1 },
             sep \in Separators, t \in BOOLEAN }

\* entries that differ in their summary
TextEntries ==
    { [title |-> "t", link |-> "l"] @@ h : h \in Opt("summary", Summaries) }

RawEntries == ImageEntries \cup TextEntries

\* get_image_from_entry(entry), called on its own
CallGetImage ==
    /\ pc = "entry"
    /\ image_url' = get_image_from_entry(entry)
    /\ pc' = "image"
    /\ UNCHANGED << entry, article, shown >>
    /\ UNCHANGED ingestVars /\ UNCHANGED shellVars

\* lines 61-73 on entry, as for a source named R&D World
CallNormalize ==
    /\ pc = "image"
    /\ article' = NormalizeEntry(entry, "R&D World")
    /\ pc' = "article"
    /\ UNCHANGED << entry, image_url, shown >>
    /\ UNCHANGED ingestVars /\ UNCHANGED shellVars

\* display_article_text(article), lines 87-91
CallDisplay ==
    /\ pc = "article"
    /\ article.exc = NoExc
    /\ shown' = display_summary(article.value)
    /\ pc' = "shown"
    /\ UNCHANGED << entry, image_url, article >>
    /\ UNCHANGED ingestVars /\ UNCHANGED shellVars

\* no call of fetch_latest_news is running
BodyIdle ==
    /\ selected_feeds = << >>
    /\ i = 1
    /\ j = 1
    /\ feed = NoFeed
    /\ all_articles = << >>
    /\ warnings = << >>
    /\ errors = << >>

IngestIdle ==
    /\ BodyIdle
    /\ web = EmptyDict
    /\ parse_calls = << >>

InitEntry ==
    /\ entry \in RawEntries
    /\ image_url = [exc |-> NoExc, value |-> None]
    /\ article = [exc |-> NoExc, value |-> EmptyDict]
    /\ shown = << >>
    /\ pc = "entry"
    /\ IngestIdle
    /\ ShellIdle

NextEntry ==
    \/ CallGetImage
    \/ CallNormalize
    \/ CallDisplay

SpecEntry == InitEntry /\ [][NextEntry]_vars

ImageCalled == pc \in { "image", "article", "shown" }
Normalized  == pc \in { "article", "shown" } /\ article.exc = NoExc

HasThumbnail == "media_thumbnail" \in DOMAIN entry /\ entry.media_thumbnail # << >>
HasContent   == "media_content" \in DOMAIN entry /\ entry.media_content # << >>
HasImageItem == HasContent /\ ImageItems(entry.media_content) # << >>

\* the markup-stripped summary of entry
Stripped == get_text(Get(entry, "summary", NoSummary))

\* s is the words ws joined by single spaces, then the ellipsis
IsTruncationOf(s, ws) ==
    /\ Len(s) >= Len(Ellipsis)
    /\ SubSeq(s, Len(s) - Len(Ellipsis) + 1, Len(s)) = Ellipsis
    /\ LET body == SubSeq(s, 1, Len(s) - Len(Ellipsis))
       IN  /\ split(body) = ws
           /\ \A k \in DOMAIN body :
                body[k] \in Whitespace =>
                  /\ body[k] = " "
                  /\ 1 < k /\ k < Len(body)
                  /\ body[k + 1] \notin Whitespace

C5_ImageNeverRaises ==
    ImageCalled => image_url.exc = NoExc

(***************************************************************************)
(* C6  For an entry with a thumbnail-media field of at least one item,     *)
(* get_image_from_entry returns the URL of the first thumbnail item,       *)
(* whatever the content-media field and the summary hold.                  *)
(***************************************************************************)
C6_FirstThumbnailWins ==
    (ImageCalled /\ HasThumbnail) =>
      image_url = [exc |-> NoExc, value |-> Get(entry.media_thumbnail[1], "url", None)]

(***************************************************************************)
(* C9  The heuristics are an exclusive chain: the image comes from the     *)
(* summary only when the entry has no non-empty thumbnail-media field and  *)
(* no non-empty content-media field.                                       *)
(***************************************************************************)
FromSummary == image_url.exc = NoExc /\ image_url.value = "uS"

C9_ExclusiveChain ==
    (ImageCalled /\ FromSummary) => (~HasThumbnail /\ ~HasContent)

(***************************************************************************)
(* C9, amended  The image comes from the summary only when the entry has   *)
(* no non-empty thumbnail-media field and its content-media field has no   *)
(* item with a URL and medium "image"; in that case, also when the         *)
(* content-media field is non-empty, the result is the src of the first    *)
(* <img> of the summary (None when there is none).  A non-empty thumbnail  *)
(* field decides alone, and so does an image item of the content field.    *)
(***************************************************************************)
C9_ChainFallsThrough ==
    ImageCalled =>
      /\ FromSummary => (~HasThumbnail /\ ~HasImageItem)
      /\ HasThumbnail => image_url.value \in { "uT", "uT2", None }
      /\ (~HasThumbnail /\ HasImageItem) =>
           image_url = [exc |-> NoExc,
                        value |-> ImageItems(entry.media_content)[1]["url"]]
      /\ (~HasThumbnail /\ ~HasImageItem) =>
           image_url = [exc |-> NoExc,
                        value |-> IF "summary" \in DOMAIN entry
                                     /\ find_img(entry.summary) # None
                                  THEN ImgSrc(find_img(entry.summary))
                                  ELSE None]

\* a non-empty content-media field without an image item, and the image of
\* the summary returned
C9_Witness ==
    /\ ImageCalled
    /\ HasContent /\ ~HasImageItem
    /\ FromSummary


(***************************************************************************)
(* SpecCache: the script (lines 136-158) run again and again, with         *)
(* fetch_latest_news behind @st.cache_data(ttl=1800) (line 47) and the     *)
(* refresh button (lines 146-148).  st.cache_data keeps, per argument      *)
(* value, the returned list and the time it was stored; an entry answers   *)
(* calls for ttl seconds; clear() drops every entry.                       *)
(***************************************************************************)
ttl == 1800

MaxNow    == MaxWindows * ttl
TickSteps == { ttl - 1, ttl }

\* the entry of `key` still answers at the present time
Valid(key) == key \in DOMAIN cache /\ now - cache[key].at < ttl

Running == pc \in { "idle", "rerun" }

\* a run follows a widget change (any selection) or st.rerun() (the same one)
RunWith(sel) == Running /\ (pc = "rerun" => sel = selected_sources)

\* lines 153-154: nothing selected, fetch_latest_news is not called
RunEmpty(sel) ==
    /\ RunWith(sel) /\ sel = << >>
    /\ selected_sources' = sel
    /\ articles' = << >>
    /\ parse_calls' = << >>
    /\ pc' = "idle"
    /\ UNCHANGED << selected_feeds, web, i, feed, j, all_articles, warnings, errors >>
    /\ UNCHANGED << cache, now >> /\ UNCHANGED entryVars

\* line 158, answered by st.cache_data: the body does not run
RunHit(sel) ==
    /\ RunWith(sel) /\ sel # << >>
    /\ Valid(sel)
    /\ selected_sources' = sel
    /\ articles' = cache[sel].value
    /\ parse_calls' = << >>
    /\ pc' = "idle"
    /\ UNCHANGED << selected_feeds, web, i, feed, j, all_articles, warnings, errors >>
    /\ UNCHANGED << cache, now >> /\ UNCHANGED entryVars

\* line 158, not answered by st.cache_data: the body is entered
RunMiss(sel) ==
    /\ RunWith(sel) /\ sel # << >>
    /\ ~Valid(sel)
    /\ selected_sources' = sel
    /\ EnterBody(sel)
    /\ parse_calls' = << >>
    /\ pc' = "loop"
    /\ UNCHANGED << web, cache, now, articles >> /\ UNCHANGED entryVars

\* st.cache_data on return: the result is stored under the argument, entries
\* past their time-to-live are dropped, and line 158 assigns `articles`
CacheStore ==
    /\ pc = "returned"
    /\ cache' = [k \in { k \in DOMAIN cache : Valid(k) } \cup { selected_feeds } |->
                   IF k = selected_feeds
                   THEN [at |-> now, value |-> all_articles]
                   ELSE cache[k]]
    /\ articles' = all_articles
    /\ selected_feeds' = << >>
    /\ i' = 1
    /\ j' = 1
    /\ feed' = NoFeed
    /\ all_articles' = << >>
    /\ pc' = "idle"
    /\ UNCHANGED << web, warnings, errors, parse_calls, selected_sources, now >>
    /\ UNCHANGED entryVars

\* A faulty variant, for comparison: the button only reruns the script, st.cache_data.clear() is
\* missing.
RefreshWithoutClear ==
    /\ pc = "idle"
    /\ pc' = "rerun"
    /\ UNCHANGED ingestVars /\ UNCHANGED shellVars /\ UNCHANGED entryVars

\* lines 146-148: the button clears the cache and asks for a rerun
Refresh ==
    /\ pc = "idle"
    /\ cache' = EmptyDict
    /\ pc' = "rerun"
    /\ UNCHANGED << selected_sources, now, articles >>
    /\ UNCHANGED ingestVars /\ UNCHANGED entryVars

\* time passes between two runs of the script
Tick(d) ==
    /\ pc = "idle"
    /\ now + d <= MaxNow
    /\ now' = now + d
    /\ UNCHANGED << pc, selected_sources, cache, articles >>
    /\ UNCHANGED ingestVars /\ UNCHANGED entryVars

\* what a feed answers while the script is in use: it raises, or it holds
\* one entry, with or without a title, and is flagged bozo or not
ShellFeeds ==
    { r \in FeedResponses({ [title |-> "t", link |-> "l", published_parsed |-> T2024],
                            [link |-> "l", published_parsed |-> T2024] }, 1) :
        r.raises \/ r.entries # << >> }

InitCache ==
    /\ pc = "idle"
    /\ BodyIdle
    /\ web \in [Range(DefaultSources) -> ShellFeeds]
    /\ parse_calls = << >>
    /\ ShellIdle
    /\ EntryIdle

NextCache ==
    \/ \E sel \in Selections : RunEmpty(sel)
    \/ \E sel \in Selections : RunHit(sel)
    \/ \E sel \in Selections : RunMiss(sel)
    \/ Body
    \/ CacheStore
    \/ Refresh
    \/ \E d \in TickSteps : Tick(d)

SpecCache == InitCache /\ [][NextCache]_vars

(***************************************************************************)
(* C7  A call whose argument equals that of an earlier call made less than *)
(* 1800 s before returns the collection computed then, and the feed parser *)
(* is not invoked; after the refresh button the next call fetches every    *)
(* selected source again, however much of the window remains.              *)
(***************************************************************************)
\* a step that runs the script with a selection, from a finished run
CallStep ==
    /\ Running /\ pc' \in { "idle", "loop" }
    /\ now' = now
    /\ selected_sources' # << >>

C7_CachedWithinTtlAndRefreshRefetches ==
    /\ [][ (CallStep /\ Valid(selected_sources')) =>
             /\ pc' = "idle"
             /\ articles' = cache[selected_sources'].value
             /\ parse_calls' = << >>
             /\ cache' = cache ]_vars
    /\ [][ (pc = "rerun" /\ selected_sources # << >>) =>
             /\ pc' = "loop"
             /\ selected_feeds' = selected_sources
             /\ parse_calls' = << >> ]_vars
    /\ [](pc = "returned" => parse_calls = selected_feeds)

\* the body runs again after a refresh, the earlier result not yet 1800 s old
C7_Witness ==
    /\ pc = "returned"
    /\ cache = EmptyDict
    /\ articles # << >>
    /\ now < ttl
    /\ parse_calls = selected_feeds /\ Len(selected_feeds) = 2

=============================================================================
